---- MODULE Spec2Model ----
(***************************************************************************)
(* The Zalo bridge: BridgeServer (server.ts) multiplexing local WebSocket  *)
(* clients over one ZaloClient adapter (zalo.ts), which wraps the zca-js   *)
(* vendor library.  Every action is one run of a handler on the Node.js    *)
(* event loop, from the event that starts it to its next suspension on     *)
(* I/O.  An `await` of a promise that is already settled resumes in the    *)
(* microtask checkpoint, before any other I/O callback: such a resumption  *)
(* is a step of its own, and while it is owed (micro # "none") no other    *)
(* handler is enabled.                                                     *)
(*                                                                         *)
(* Objects nothing refers to any more are forgotten and their ids name the *)
(* next object constructed: a socket that is CLOSED and awaited by no      *)
(* login in flight, an adapter that is neither the server's nor logging in *)
(* nor listening.  The adapters are a sequence: the one the server refers  *)
(* to is at CUR, the ones it has let go of, and that still log in or       *)
(* listen, follow in the order in which it let go of them.                 *)
(* Vendor instances are told apart by what holds them: the                 *)
(* logins in flight (per adapter and requesting socket), the session       *)
(* handle of each adapter (ZaloClient.api), and the instances whose        *)
(* listener runs while no adapter holds them any more (stray).             *)
(* ZaloClient.zalo is written and never read: it is left out.              *)
(***************************************************************************)
EXTENDS Integers, Sequences, FiniteSets, TLC

\* Bounds of the model.
MaxSockets == 2     \* sockets alive at once (not CLOSED, or awaited by a login in flight)
MaxAdapters == 2    \* ZaloClient instances alive at once
MaxHandles == 2     \* vendor instances alive at once (logging in, held, or stray)

NULL == 0

Sock == 1..MaxSockets
CUR == 1

\* The command texts a client may send.
Texts == {"not json", "{type:foo}", "{type:login}", "{type:send}", "{type:typing}"}

\* The contents of a raw vendor message event (message.data.content).
RawContents ==
    { [t |-> "string", href |-> "NONE", text |-> "hello"],
      [t |-> "object", href |-> "http://x", text |-> "NONE"],
      [t |-> "object", href |-> "NULL", text |-> "NONE"],
      [t |-> "object", href |-> "UNDEFINED", text |-> "NONE"],
      [t |-> "null", href |-> "NONE", text |-> "NONE"] }

\* How a vendor login, and the listener start after it, can end.
Outcomes == {"ok", "rejected", "startThrows"}

VARIABLES
    proc,         \* "boot", "serving", "exited": the process (index.ts)
    wss,          \* BridgeServer.wss: "null" or "listening"
    zalo,         \* BridgeServer.zalo: NULL or the adapter CUR
    clients,      \* BridgeServer.clients
    readyState,   \* readyState of every socket: "OPEN", "CLOSING", "CLOSED"
    adapters,     \* every ZaloClient: made, api: "null", or the state of the
                  \* listener of its session handle, "idle" or "started", and
                  \* logins: the vendor logins it awaits, per requesting socket
    stray,        \* vendor instances whose listener runs and that no adapter holds
    micro,        \* the resumption owed in the microtask queue
    out,          \* ws.send calls made by the last handler run, in order
    calls,        \* vendor and adapter calls made by the last handler run, in order
    lastOp,       \* the last handler run
    loginSince,   \* a login has succeeded since the client set last became non-empty
    scn           \* how far the run has followed the two-client scenario

vars == <<proc, wss, zalo, clients, readyState, adapters, stray, micro,
          out, calls, lastOp, loginSince, scn>>

NoLogins == [s \in Sock |-> 0]

NoAdapter == [made |-> FALSE, api |-> "null", logins |-> NoLogins]

Op(name, ws, arg) == [op |-> name, ws |-> ws, arg |-> arg]

Call(fn, on) == [fn |-> fn, on |-> on]

Init ==
    /\ proc = "boot"
    /\ wss = "null"
    /\ zalo = NULL
    /\ clients = {}
    /\ readyState = [s \in Sock |-> "CLOSED"]
    /\ adapters = <<NoAdapter>>
    /\ stray = 0
    /\ micro = "none"
    /\ out = <<>>
    /\ calls = <<>>
    /\ lastOp = Op("new", NULL, "")
    /\ loginSince = FALSE
    /\ scn = [stage |-> "boot", a |-> NULL, b |-> NULL]

\* for (const x of set): the members of S, here listed by id.  The code
\* visits them in the order of their insertion; a broadcast sends one event
\* to each, and no socket sees what another is sent.
InOrder(S) ==
    [i \in 1..Cardinality(S) |-> CHOOSE x \in S : Cardinality({y \in S : y < x}) = i - 1]

\* JSON.stringify of an event: a property whose value is undefined is left out.
JsonStringify(ev) ==
    IF ev.v = "UNDEFINED" THEN [ev EXCEPT !.v = "ABSENT"] ELSE ev

\* An event with one property k of value v besides its type; err is the
\* `error` property of a login-result.
Event(type, k, v) == [type |-> type, k |-> k, v |-> v, err |-> "ABSENT"]

\* ws.send(data) on socket s: the call, with the readyState it finds (the ws
\* library delivers it when OPEN and drops it otherwise).
WsSend(s, rs, ev, n) ==
    [to |-> s, rs |-> rs[s], n |-> n] @@ JsonStringify(ev)

\* A broadcast that leaves out the readyState test.
BroadcastUnfiltered(cs, rs, ev, n) ==
    LET ord == InOrder(cs)
    IN [i \in 1..Len(ord) |-> WsSend(ord[i], rs, ev, n)]

\* BridgeServer.broadcast over client set cs with readyStates rs; n numbers
\* the broadcast within the handler run.
Broadcast(cs, rs, ev, n) ==
    LET open == {c \in cs : rs[c] = "OPEN"}
        ord == InOrder(open)
    IN [i \in 1..Len(ord) |-> WsSend(ord[i], rs, ev, n)]

Serving == proc = "serving" /\ micro = "none"

FirstFree(S) == CHOOSE x \in S : \A y \in S : x <= y

Awaited(s) == \E a \in DOMAIN adapters : adapters[a].logins[s] > 0

FreeSockets == {s \in Sock : readyState[s] = "CLOSED" /\ ~Awaited(s)}

\* The listeners that were started and not stopped.
Listeners(ad, st) == Cardinality({a \in DOMAIN ad : ad[a].api = "started"}) + st

\* The vendor instances alive: held by an adapter, logging in, or stray.
Handles(ad, st) ==
    Cardinality({a \in DOMAIN ad : ad[a].api # "null"})
    + Cardinality({x \in (DOMAIN ad) \X Sock \X (1..MaxHandles) : x[3] <= ad[x[1]].logins[x[2]]})
    + st

\* An adapter the server has let go of is still there while it logs in or
\* listens.
LiveAdapter(adapter) ==
    \/ \E s \in Sock : adapter.logins[s] > 0
    \/ adapter.api = "started"

\* The handler leaves the adapters as ad and the server's adapter reference
\* as z.
Leave(ad, z) ==
    /\ zalo' = z
    /\ adapters' = <<IF z = CUR THEN ad[CUR] ELSE NoAdapter>>
                   \o SelectSeq(Tail(ad), LiveAdapter)
                   \o (IF z = NULL /\ LiveAdapter(ad[CUR]) THEN <<ad[CUR]>> ELSE <<>>)

\* The listener's message handler: the content of the event it forwards, or
\* that it forwards none.  Reading .href of a null content throws, which the
\* handler's catch logs.
Classify(content) ==
    IF content.t = "string"
    THEN [emit |-> TRUE, k |-> "string", v |-> content.text]
    ELSE IF content.t = "null"
    THEN [emit |-> FALSE, k |-> "NONE", v |-> "NONE"]
    ELSE IF content.href # "NULL"
    THEN [emit |-> TRUE, k |-> "attachment", v |-> content.href]
    ELSE [emit |-> FALSE, k |-> "NONE", v |-> "NONE"]

\* The scenario monitor.  It follows a run for as long as the run is: the
\* server starts, client A connects and logs in, the vendor login succeeds,
\* client B connects, one platform message is forwarded, A's close event, B's
\* close event and its continuation.  From there on the stage is "torn" until
\* a login command succeeds ("tornHalf" once a vendor login has resolved and
\* the listener start after it has failed).  A run that leaves the scenario is
\* "off" for good.
Stage(stage) == [stage |-> stage, a |-> NULL, b |-> NULL]

Follow ==
    LET op == lastOp'
        at == scn.stage
    IN scn' =
        IF at = "boot" /\ op.op = "start" THEN Stage("started")
        ELSE IF at = "started" /\ op.op = "connection" THEN [Stage("A") EXCEPT !.a = op.ws]
        ELSE IF at = "A" /\ op.op = "message" /\ op.ws = scn.a /\ op.arg = "{type:login}"
        THEN [scn EXCEPT !.stage = "Alogin"]
        ELSE IF at = "Alogin" /\ op.op = "loginDone" /\ op.ws = scn.a /\ op.arg = "ok"
        THEN [scn EXCEPT !.stage = "Aok"]
        ELSE IF at = "Aok" /\ op.op = "connection" THEN [scn EXCEPT !.stage = "AB", !.b = op.ws]
        ELSE IF at = "AB" /\ op.op = "vendorMessage" /\ Classify(op.arg).emit
        THEN [scn EXCEPT !.stage = "msg"]
        ELSE IF at = "msg" /\ op.op = "close" /\ op.ws = scn.a THEN [scn EXCEPT !.stage = "Aleft"]
        ELSE IF at = "Aleft" /\ op.op = "close" /\ op.ws = scn.b THEN [scn EXCEPT !.stage = "Bleft"]
        ELSE IF at = "Bleft" /\ op.op = "closeTail" THEN Stage("torn")
        ELSE IF at \in {"torn", "tornHalf"} /\ op.op = "loginDone"
        THEN (IF op.arg = "ok" THEN Stage("off")
              ELSE IF op.arg = "startThrows" THEN Stage("tornHalf")
              ELSE scn)
        ELSE IF at \in {"torn", "tornHalf"} THEN scn
        ELSE Stage("off")

StartServer ==
    /\ proc = "boot"
    /\ proc' = "serving"
    /\ wss' = "listening"
    /\ out' = <<>>
    /\ calls' = <<>>
    /\ lastOp' = Op("start", NULL, "")
    /\ UNCHANGED <<zalo, clients, readyState, adapters, stray, micro, loginSince>>
    /\ Follow

\* wss.on("connection")
Connection(s) ==
    /\ Serving
    /\ wss = "listening"
    /\ FreeSockets # {}
    /\ s = FirstFree(FreeSockets)
    /\ readyState' = [readyState EXCEPT ![s] = "OPEN"]
    /\ clients' = clients \cup {s}
    /\ loginSince' = IF clients = {} THEN FALSE ELSE loginSince
    /\ out' = <<>>
    /\ calls' = <<>>
    /\ lastOp' = Op("connection", s, "")
    /\ UNCHANGED <<proc, wss, zalo, adapters, stray, micro>>
    /\ Follow

\* A disconnect that keeps the session handle.
DisconnectKeepsHandle(a, ad) == ad

\* ZaloClient.disconnect() on adapter a: it stops the listener of the session
\* handle if there is one, drops the handle and reports "disconnected".  It
\* contains no await, so it runs to its end inside the handler that calls it.
DisconnectAdapter(a, ad) == [ad EXCEPT ![a].api = "null"]

DisconnectCalls(a, ad) ==
    <<Call("disconnect", a)>>
    \o (IF ad[a].api # "null" THEN <<Call("listener.stop", a)>> ELSE <<>>)
    \o <<Call("onStatus disconnected", a)>>

\* A teardown test that forgets the size of the client set.
TeardownOnAnyClose(cs, z) == z # NULL

\* The close and error handlers' test: the set is empty and an adapter exists.
ShouldTeardown(cs, z) == cs = {} /\ z # NULL

\* ws.on("close"): up to the await of disconnect().
Close(s) ==
    /\ Serving
    /\ readyState[s] \in {"OPEN", "CLOSING"}
    /\ readyState' = [readyState EXCEPT ![s] = "CLOSED"]
    /\ clients' = clients \ {s}
    /\ lastOp' = Op("close", s, "")
    /\ IF ShouldTeardown(clients', zalo)
       THEN /\ Leave(DisconnectAdapter(zalo, adapters), zalo)
            /\ calls' = DisconnectCalls(zalo, adapters)
            /\ out' = Broadcast(clients', readyState', Event("status", "status", "disconnected"), 1)
            /\ micro' = "closeTail"
       ELSE /\ calls' = <<>>
            /\ out' = <<>>
            /\ UNCHANGED <<zalo, adapters, micro>>
    /\ UNCHANGED <<proc, wss, stray, loginSince>>
    /\ Follow

\* ws.on("close"): after the await, this.zalo = null.
CloseTail ==
    /\ micro = "closeTail"
    /\ Leave(adapters, NULL)
    /\ micro' = "none"
    /\ out' = <<>>
    /\ calls' = <<>>
    /\ lastOp' = Op("closeTail", NULL, "")
    /\ UNCHANGED <<proc, wss, clients, readyState, stray, loginSince>>
    /\ Follow

\* An error handler that disconnects the adapter and keeps the reference.
SocketErrorKeepsReference(s) ==
    /\ Serving
    /\ readyState[s] \in {"OPEN", "CLOSING"}
    /\ readyState' = [readyState EXCEPT ![s] = "CLOSING"]
    /\ clients' = clients \ {s}
    /\ lastOp' = Op("error", s, "")
    /\ IF ShouldTeardown(clients', zalo)
       THEN /\ Leave(DisconnectAdapter(zalo, adapters), zalo)
            /\ calls' = DisconnectCalls(zalo, adapters)
            /\ out' = Broadcast(clients', readyState', Event("status", "status", "disconnected"), 1)
       ELSE /\ calls' = <<>>
            /\ out' = <<>>
            /\ UNCHANGED <<zalo, adapters>>
    /\ UNCHANGED <<proc, wss, stray, micro, loginSince>>
    /\ Follow

\* ws.on("error"): the ws library has moved the socket to CLOSING when it
\* emits the event; the close event follows.
SocketError(s) ==
    /\ Serving
    /\ readyState[s] \in {"OPEN", "CLOSING"}
    /\ readyState' = [readyState EXCEPT ![s] = "CLOSING"]
    /\ clients' = clients \ {s}
    /\ lastOp' = Op("error", s, "")
    /\ IF ShouldTeardown(clients', zalo)
       THEN /\ Leave(DisconnectAdapter(zalo, adapters), NULL)
            /\ calls' = DisconnectCalls(zalo, adapters)
            /\ out' = Broadcast(clients', readyState', Event("status", "status", "disconnected"), 1)
       ELSE /\ calls' = <<>>
            /\ out' = <<>>
            /\ UNCHANGED <<zalo, adapters>>
    /\ UNCHANGED <<proc, wss, stray, micro, loginSince>>
    /\ Follow

\* The peer starts the closing handshake: the socket is CLOSING until its
\* close event is emitted.
PeerClosing(s) ==
    /\ Serving
    /\ readyState[s] = "OPEN"
    /\ readyState' = [readyState EXCEPT ![s] = "CLOSING"]
    /\ out' = <<>>
    /\ calls' = <<>>
    /\ lastOp' = Op("closing", s, "")
    /\ UNCHANGED <<proc, wss, zalo, clients, adapters, stray, micro, loginSince>>
    /\ Follow

\* JSON.parse(data.toString()).
JsonParse(text) ==
    CASE text = "not json" -> [ok |-> FALSE, type |-> "NONE"]
      [] text = "{type:foo}" -> [ok |-> TRUE, type |-> "foo"]
      [] text = "{type:login}" -> [ok |-> TRUE, type |-> "login"]
      [] text = "{type:send}" -> [ok |-> TRUE, type |-> "send"]
      [] text = "{type:typing}" -> [ok |-> TRUE, type |-> "typing"]

\* What a handler that only sends and calls leaves alone.
Unchanged ==
    UNCHANGED <<proc, wss, zalo, clients, readyState, adapters, stray, micro, loginSince>>

\* What the adapter logs when a vendor call it awaited has failed.
SendFailed == "console.error: Failed to send message"

\* A catch that reports the error to every client.
CatchErrorToAll(s, what, made) ==
    /\ out' = [i \in 1..Cardinality(clients) |->
                  WsSend(InOrder(clients)[i], readyState, Event("error", "error", what), 1)]
    /\ calls' = made
    /\ Unchanged

\* The message handler's catch: one error event to the socket of the command.
CatchError(s, what, made) ==
    /\ out' = <<WsSend(s, readyState, Event("error", "error", what), 1)>>
    /\ calls' = made
    /\ Unchanged

\* A handleLogin without the test of this.zalo: every command constructs an
\* adapter, and the server lets go of the one it had.
HandleLoginAlwaysNew(s) ==
    /\ Len(adapters) - 1 < MaxAdapters
    /\ Handles(adapters, stray) < MaxHandles
    /\ zalo' = CUR
    /\ adapters' = <<[NoAdapter EXCEPT !.made = TRUE, !.logins[s] = 1]>>
                   \o SelectSeq(Tail(adapters), LiveAdapter)
                   \o (IF LiveAdapter(adapters[CUR]) THEN <<adapters[CUR]>> ELSE <<>>)
    /\ calls' = <<Call("new ZaloClient", CUR), Call("login", CUR), Call("new Zalo", CUR),
                  Call("zalo.login", CUR)>>
    /\ out' = <<>>
    /\ UNCHANGED <<proc, wss, clients, readyState, stray, micro, loginSince>>

\* handleLogin and ZaloClient.login, up to the await of the vendor login.
HandleLogin(s) ==
    /\ zalo = NULL => Len(adapters) - 1 < MaxAdapters
    /\ Handles(adapters, stray) < MaxHandles
    /\ Leave([adapters EXCEPT ![CUR].made = TRUE, ![CUR].logins[s] = @ + 1], CUR)
    /\ calls' = (IF zalo = NULL THEN <<Call("new ZaloClient", CUR)>> ELSE <<>>)
                \o <<Call("login", CUR), Call("new Zalo", CUR), Call("zalo.login", CUR)>>
    /\ out' = <<>>
    /\ UNCHANGED <<proc, wss, clients, readyState, stray, micro, loginSince>>

\* A sendMessage without the test of the session handle.
SendMessageUnguarded(s, ok) ==
    IF ok
    THEN /\ calls' = <<Call("api.sendMessage", zalo)>>
         /\ out' = <<>>
         /\ Unchanged
    ELSE CatchError(s, "vendor", <<Call("api.sendMessage", zalo), Call(SendFailed, zalo)>>)

\* ZaloClient.sendMessage with the vendor call it awaits: the call settles
\* with `ok`, and a failure is logged and rethrown to the message handler's
\* catch.
SendMessage(s, ok) ==
    IF adapters[zalo].api = "null"
    THEN CatchError(s, "Not logged in to Zalo", <<>>)
    ELSE IF ok
    THEN /\ calls' = <<Call("api.sendMessage", zalo)>>
         /\ out' = <<>>
         /\ Unchanged
    ELSE CatchError(s, "vendor", <<Call("api.sendMessage", zalo), Call(SendFailed, zalo)>>)

TypingFailed == "console.error: Failed to send typing event"

\* A sendTypingEvent that lets the vendor's failure through.
SendTypingEventRethrows(s, ok) ==
    IF adapters[zalo].api # "null" /\ ~ok
    THEN CatchError(s, "vendor", <<Call("api.sendTypingEvent", zalo), Call(TypingFailed, zalo)>>)
    ELSE /\ calls' = IF adapters[zalo].api = "null" THEN <<>>
                     ELSE <<Call("api.sendTypingEvent", zalo)>>
         /\ out' = <<>>
         /\ Unchanged

\* ZaloClient.sendTypingEvent with the vendor call it awaits: the call settles
\* with `ok`; its failure is caught and logged, so nothing follows its
\* completion.
SendTypingEvent(s, ok) ==
    /\ calls' = IF adapters[zalo].api = "null" THEN <<>>
                ELSE IF ok THEN <<Call("api.sendTypingEvent", zalo)>>
                ELSE <<Call("api.sendTypingEvent", zalo), Call(TypingFailed, zalo)>>
    /\ out' = <<>>
    /\ Unchanged

HandleCommand(cmd, s, ok) ==
    IF cmd.type = "login" THEN HandleLogin(s)
    ELSE IF cmd.type = "send" /\ zalo # NULL THEN SendMessage(s, ok)
    ELSE IF cmd.type = "typing" /\ zalo # NULL THEN SendTypingEvent(s, ok)
    ELSE out' = <<>> /\ calls' = <<>> /\ Unchanged

\* ws.on("message"); ok is the outcome of the vendor call, if one is made.
OnMessage(s, text, ok) ==
    /\ Serving
    /\ readyState[s] = "OPEN"
    /\ lastOp' = Op("message", s, text)
    /\ LET cmd == JsonParse(text)
       IN IF ~cmd.ok THEN CatchError(s, "SyntaxError", <<>>)
          ELSE HandleCommand(cmd, s, ok)
    /\ Follow

\* The vendor login awaited by adapter a for the login command of socket s
\* settles; the rest of ZaloClient.login and of handleLogin follow as its
\* continuations.
\* A login whose listener start is outside the try block.
LoginResultOfVendorOnly(outcome) == IF outcome = "rejected" THEN "false" ELSE "true"

LoginResult(outcome) == IF outcome = "ok" THEN "true" ELSE "false"

\* handleLogin's login-result: {type: "login", success: true}, or success
\* false with the error's text.
LoginEvent(outcome) ==
    [Event("login", "success", LoginResult(outcome)) EXCEPT
        !.err = IF LoginResult(outcome) = "true" THEN "ABSENT" ELSE "String(error)"]

\* The onStatus calls of ZaloClient.login.
LoginStatuses(outcome) ==
    CASE outcome = "ok" -> <<"connected">>
      [] outcome = "rejected" -> <<"disconnected">>
      [] outcome = "startThrows" -> <<"connected", "disconnected">>

\* A login-result that is broadcast like a status.
LoginEventsToAll(s, cs, rs, outcome) ==
    LET st == LoginStatuses(outcome)
        b1 == Broadcast(cs, rs, Event("status", "status", st[1]), 1)
        b2 == IF Len(st) > 1
              THEN Broadcast(cs, rs, Event("status", "status", st[2]), 2)
              ELSE <<>>
    IN b1 \o b2 \o Broadcast(cs, rs, LoginEvent(outcome), Len(st) + 1)

\* A handleLogin that answers before the adapter reports its status.
LoginEventsResultFirst(s, cs, rs, outcome) ==
    LET st == LoginStatuses(outcome)
        b1 == Broadcast(cs, rs, Event("status", "status", st[1]), 1)
        b2 == IF Len(st) > 1
              THEN Broadcast(cs, rs, Event("status", "status", st[2]), 2)
              ELSE <<>>
    IN <<WsSend(s, rs, LoginEvent(outcome), Len(st) + 1)>> \o b1 \o b2

\* The ws.send calls of one login command: the adapter's status broadcasts,
\* then handleLogin's login-result to the requesting socket s.
LoginEvents(s, cs, rs, outcome) ==
    LET st == LoginStatuses(outcome)
        b1 == Broadcast(cs, rs, Event("status", "status", st[1]), 1)
        b2 == IF Len(st) > 1
              THEN Broadcast(cs, rs, Event("status", "status", st[2]), 2)
              ELSE <<>>
    IN b1 \o b2 \o <<WsSend(s, rs, LoginEvent(outcome), Len(st) + 1)>>

\* this.api = await this.zalo.login(...); this.api.listener.start(): the
\* handle the adapter held before is overwritten, its listener is not stopped.
LoginApi(old, outcome) ==
    CASE outcome = "ok" -> "started"
      [] outcome = "rejected" -> old
      [] outcome = "startThrows" -> "idle"

\* What ZaloClient.login calls once the vendor login has settled.
LoginCalls(a, outcome) ==
    CASE outcome = "ok" -> <<Call("onStatus connected", a), Call("listener.start", a)>>
      [] outcome = "rejected" -> <<Call("onStatus disconnected", a)>>
      [] outcome = "startThrows" -> <<Call("onStatus connected", a), Call("listener.start", a),
                                      Call("onStatus disconnected", a)>>

LoginStray(old, outcome) ==
    IF outcome # "rejected" /\ old = "started" THEN 1 ELSE 0

LoginDone(a, s, outcome) ==
    /\ Serving
    /\ adapters[a].logins[s] > 0
    /\ lastOp' = Op("loginDone", s, outcome)
    /\ stray' = stray + LoginStray(adapters[a].api, outcome)
    /\ Leave([adapters EXCEPT ![a].api = LoginApi(@, outcome), ![a].logins[s] = @ - 1], zalo)
    /\ calls' = LoginCalls(a, outcome)
    /\ out' = LoginEvents(s, clients, readyState, outcome)
    /\ loginSince' = (loginSince \/ outcome = "ok")
    /\ UNCHANGED <<proc, wss, clients, readyState, micro>>
    /\ Follow

\* api.listener.on("message") of a vendor instance whose listener runs.
VendorMessage(content) ==
    /\ Serving
    /\ Listeners(adapters, stray) > 0
    /\ lastOp' = Op("vendorMessage", NULL, content)
    /\ LET m == Classify(content)
       IN out' = IF m.emit
                 THEN Broadcast(clients, readyState, Event("message", m.k, m.v), 1)
                 ELSE <<>>
    /\ calls' = <<>>
    /\ Unchanged
    /\ Follow

\* api.listener.on("error") of a vendor instance whose listener runs.
VendorError ==
    /\ Serving
    /\ Listeners(adapters, stray) > 0
    /\ lastOp' = Op("vendorError", NULL, "")
    /\ out' = Broadcast(clients, readyState, Event("status", "status", "error"), 1)
    /\ calls' = <<>>
    /\ Unchanged
    /\ Follow

\* A stop that disconnects the adapter before it closes anything.
StopCallsDisconnectFirst(z, ad) ==
    (IF z # NULL THEN DisconnectCalls(z, ad) ELSE <<>>)
    \o <<Call("close clients", NULL), Call("wss.close", NULL)>>

\* The calls of stop(), in its order: close() on every client (and
\* clients.clear()), wss.close(), disconnect() on the adapter if there is one.
StopCalls(z, ad) ==
    <<Call("close clients", NULL), Call("wss.close", NULL)>>
    \o (IF z # NULL THEN DisconnectCalls(z, ad) ELSE <<>>)

\* SIGINT/SIGTERM: server.stop(), up to the await of disconnect().
Stop ==
    /\ Serving
    /\ lastOp' = Op("stop", NULL, "")
    /\ readyState' = [s \in Sock |-> IF s \in clients /\ readyState[s] = "OPEN"
                                     THEN "CLOSING" ELSE readyState[s]]
    /\ clients' = {}
    /\ wss' = "null"
    /\ IF zalo # NULL
       THEN /\ Leave(DisconnectAdapter(zalo, adapters), zalo)
            /\ calls' = StopCalls(zalo, adapters)
            /\ out' = Broadcast(clients', readyState', Event("status", "status", "disconnected"), 1)
            /\ micro' = "stopTail"
       ELSE /\ calls' = StopCalls(zalo, adapters)
            /\ out' = <<>>
            /\ micro' = "exit"
            /\ UNCHANGED <<zalo, adapters>>
    /\ UNCHANGED <<proc, stray, loginSince>>
    /\ Follow

\* stop(): after the await, this.zalo = null.
StopTail ==
    /\ micro = "stopTail"
    /\ Leave(adapters, NULL)
    /\ micro' = "exit"
    /\ out' = <<>>
    /\ calls' = <<>>
    /\ lastOp' = Op("stopTail", NULL, "")
    /\ UNCHANGED <<proc, wss, clients, readyState, stray, loginSince>>
    /\ Follow

\* The signal handler after `await server.stop()`: process.exit(0).
Exit ==
    /\ micro = "exit"
    /\ proc' = "exited"
    /\ micro' = "none"
    /\ out' = <<>>
    /\ calls' = <<>>
    /\ lastOp' = Op("exit", NULL, "")
    /\ UNCHANGED <<wss, zalo, clients, readyState, adapters, stray, loginSince>>
    /\ Follow

Next ==
    \/ StartServer
    \/ \E s \in Sock : Connection(s)
    \/ \E s \in Sock : PeerClosing(s)
    \/ \E s \in Sock : Close(s)
    \/ CloseTail
    \/ \E s \in Sock : SocketError(s)
    \/ \E s \in Sock, text \in Texts :
          \E ok \in (IF text \in {"{type:send}", "{type:typing}"} THEN BOOLEAN ELSE {TRUE}) :
             OnMessage(s, text, ok)
    \/ \E a \in DOMAIN adapters, s \in Sock, outcome \in Outcomes : LoginDone(a, s, outcome)
    \/ \E content \in RawContents : VendorMessage(content)
    \/ VendorError
    \/ Stop
    \/ StopTail
    \/ Exit

Spec == Init /\ [][Next]_vars

(***************************************************************************)
(* The adapter on its own: one ZaloClient, held by a server that has       *)
(* started and has any set of connections, and called in any order: login  *)
(* commands, the settling of the vendor logins, and disconnect().          *)
(***************************************************************************)
\* The connections of the server that holds the adapter: members of the
\* client set are OPEN or CLOSING, every other socket is CLOSED.
InitAdapter ==
    /\ proc = "serving"
    /\ wss = "listening"
    /\ zalo = CUR
    /\ clients \in SUBSET Sock
    /\ readyState \in [Sock -> {"OPEN", "CLOSING", "CLOSED"}]
    /\ \A c \in Sock : (readyState[c] = "CLOSED") <=> (c \notin clients)
    /\ adapters = <<[NoAdapter EXCEPT !.made = TRUE]>>
    /\ stray = 0
    /\ micro = "none"
    /\ out = <<>>
    /\ calls = <<>>
    /\ lastOp = Op("new ZaloClient", NULL, "")
    /\ loginSince = FALSE
    /\ scn = Stage("off")

\* disconnect() with an onStatus call only when a handle was held.
DisconnectCallsWhenHeld(a, ad) ==
    <<Call("disconnect", a)>>
    \o (IF ad[a].api # "null"
        THEN <<Call("listener.stop", a), Call("onStatus disconnected", a)>>
        ELSE <<>>)

\* The calls of one disconnect() on adapter a.
DisconnectCallsMade(a, ad) == DisconnectCalls(a, ad)

\* disconnect() on the adapter, called by its holder, who keeps it; the
\* argument of the step tells a call that follows another at once.
Disconnect ==
    /\ Serving
    /\ lastOp' = Op("disconnect", NULL, IF lastOp.op = "disconnect" THEN "again" ELSE "first")
    /\ Leave(DisconnectAdapter(zalo, adapters), zalo)
    /\ calls' = DisconnectCallsMade(zalo, adapters)
    /\ out' = IF \E i \in DOMAIN calls' : calls'[i].fn = "onStatus disconnected"
              THEN Broadcast(clients, readyState, Event("status", "status", "disconnected"), 1)
              ELSE <<>>
    /\ UNCHANGED <<proc, wss, clients, readyState, stray, micro, loginSince>>
    /\ Follow

NextAdapter ==
    \/ \E s \in Sock : OnMessage(s, "{type:login}", TRUE)
    \/ \E s \in Sock, outcome \in Outcomes : LoginDone(CUR, s, outcome)
    \/ Disconnect

SpecAdapter == InitAdapter /\ [][NextAdapter]_vars

(***************************************************************************)
(* The listener's message handler with the timestamp of the event it       *)
(* forwards: `Number(message.data?.ts) || Date.now()`.                     *)
(***************************************************************************)
JsValue(t, n, str) == [t |-> t, n |-> n, str |-> str]

\* The values message.data.ts may have: numbers, NaN, undefined (the property
\* is absent), null, booleans (n is 1 for true), and strings over the
\* characters 0, 1, 7 and x.
TsValues ==
    { JsValue("number", 0, <<>>), JsValue("number", 7, <<>>), JsValue("number", 17, <<>>),
      JsValue("NaN", 0, <<>>), JsValue("undefined", 0, <<>>), JsValue("null", 0, <<>>),
      JsValue("boolean", 1, <<>>), JsValue("boolean", 0, <<>>),
      JsValue("string", 0, <<>>), JsValue("string", 0, <<"0">>), JsValue("string", 0, <<"7">>),
      JsValue("string", 0, <<"1", "7">>), JsValue("string", 0, <<"x">>),
      JsValue("string", 0, <<"7", "x">>) }

\* The values of Date.now() at the receipt of a message.
Clock == {1000, 1001}

Digits == {"0", "1", "7"}

DigitValue(c) == CASE c = "0" -> 0 [] c = "1" -> 1 [] c = "7" -> 7

RECURSIVE Decimal(_)
Decimal(str) ==
    IF str = <<>> THEN 0
    ELSE 10 * Decimal(SubSeq(str, 1, Len(str) - 1)) + DigitValue(str[Len(str)])

\* A number, or NaN.
JsNum(nan, n) == [nan |-> nan, n |-> n]

\* Number(v): undefined and NaN give NaN, null gives 0, true 1 and false 0,
\* the empty string 0, a string of digits its decimal value, and a string
\* with another character NaN.
JsNumber(v) ==
    CASE v.t = "number" -> JsNum(FALSE, v.n)
      [] v.t \in {"NaN", "undefined"} -> JsNum(TRUE, 0)
      [] v.t = "null" -> JsNum(FALSE, 0)
      [] v.t = "boolean" -> JsNum(FALSE, v.n)
      [] v.t = "string" ->
            IF \A i \in DOMAIN v.str : v.str[i] \in Digits
            THEN JsNum(FALSE, Decimal(v.str))
            ELSE JsNum(TRUE, 0)

\* x || y on a number x: y when x is 0 or NaN.
Timestamp(ts, now) ==
    LET x == JsNumber(ts)
    IN IF x.nan \/ x.n = 0 THEN now ELSE x.n

\* A server with its connections and a logged-in adapter whose listener runs.
InitListener ==
    /\ proc = "serving"
    /\ wss = "listening"
    /\ zalo = CUR
    /\ clients \in SUBSET Sock
    /\ clients # {}
    /\ readyState \in [Sock -> {"OPEN", "CLOSING", "CLOSED"}]
    /\ \A c \in Sock : (readyState[c] = "CLOSED") <=> (c \notin clients)
    /\ adapters = <<[NoAdapter EXCEPT !.made = TRUE, !.api = "started"]>>
    /\ stray = 0
    /\ micro = "none"
    /\ out = <<>>
    /\ calls = <<>>
    /\ lastOp = Op("listener.start", NULL, "")
    /\ loginSince = TRUE
    /\ scn = Stage("off")

\* api.listener.on("message") for a raw message with this content and ts,
\* received at `now`.
MessageAt(content, ts, now) ==
    /\ Serving
    /\ Listeners(adapters, stray) > 0
    /\ lastOp' = Op("vendorMessage", NULL, [content |-> content, ts |-> ts, now |-> now])
    /\ LET m == Classify(content)
           ev == [timestamp |-> Timestamp(ts, now)] @@ Event("message", m.k, m.v)
       IN out' = IF m.emit THEN Broadcast(clients, readyState, ev, 1) ELSE <<>>
    /\ calls' = <<>>
    /\ Unchanged
    /\ Follow

NextListener ==
    \E content \in RawContents, ts \in TsValues, now \in Clock : MessageAt(content, ts, now)

SpecListener == InitListener /\ [][NextListener]_vars

(***************************************************************************)
(* What the last handler run did, read from out, calls and lastOp.         *)
(***************************************************************************)
\* The calls into the vendor library that a command can cause.
VendorCalls ==
    {i \in DOMAIN calls : calls[i].fn \in {"zalo.login", "api.sendMessage", "api.sendTypingEvent"}}

Called(fn) == {i \in DOMAIN calls : calls[i].fn = fn}

\* The last handler run handled a command whose text is in texts.
Handled(texts) == lastOp.op = "message" /\ lastOp.arg \in texts

\* The ws.send calls that carried an event of this type to connection c.
SentTo(c, type) == {i \in DOMAIN out : out[i].to = c /\ out[i].type = type}

SameEvent(x, y) == x.type = y.type /\ x.k = y.k /\ x.v = y.v /\ x.err = y.err

OpenClients == {c \in clients : readyState[c] = "OPEN"}

\* An adapter holds a session handle whose listener is started.
SessionActive == \E a \in DOMAIN adapters : adapters[a].api = "started"

\* C1: a session is active if and only if the client set is non-empty and a
\* login has succeeded since the client set last became non-empty.
SessionActiveIffClientsLoggedIn ==
    SessionActive <=> (clients # {} /\ loginSince)

\* C2: counting every adapter and every vendor handle, at most one listener
\* was started and not stopped.
AtMostOneListener == Listeners(adapters, stray) <= 1

\* C3: a close or error event that leaves the client set non-empty leaves the
\* adapter reference and the adapter alone, calls nothing and sends nothing;
\* one that empties the set while an adapter exists calls disconnect() on it
\* and the adapter reference becomes null, at once in the error handler and
\* in the close handler's continuation, which is the very next handler run.
TeardownExactlyWhenEmptied ==
    [][/\ lastOp'.op \in {"close", "error"} =>
            /\ clients' = clients \ {lastOp'.ws}
            /\ clients' # {} =>
                  /\ zalo' = zalo
                  /\ adapters' = adapters
                  /\ calls' = <<>>
                  /\ out' = <<>>
                  /\ micro' = "none"
            /\ (clients' = {} /\ zalo # NULL) =>
                  /\ \E i \in DOMAIN calls' : calls'[i] = Call("disconnect", zalo)
                  /\ adapters'[CUR].api = "null"
                  /\ Listeners(adapters', stray')
                       = Listeners(adapters, stray) - (IF adapters[CUR].api = "started" THEN 1 ELSE 0)
                  /\ IF lastOp'.op = "error"
                     THEN zalo' = NULL /\ micro' = "none"
                     ELSE zalo' = zalo /\ micro' = "closeTail"
            /\ (clients' = {} /\ zalo = NULL) =>
                  /\ zalo' = NULL
                  /\ adapters' = adapters
                  /\ calls' = <<>>
       /\ micro = "closeTail" =>
            /\ lastOp'.op = "closeTail"
            /\ zalo' = NULL
            /\ clients' = clients
            /\ calls' = <<>>
      ]_vars

TeardownOnLastClose ==
    /\ lastOp.op = "close"
    /\ clients = {}
    /\ micro = "closeTail"
    /\ Called("disconnect") # {}

\* The command text is no JSON, or its type is none of login, send, typing.
Unrecognised(text) ==
    \/ ~JsonParse(text).ok
    \/ JsonParse(text).type \notin {"login", "send", "typing"}

\* C4: a command that is no JSON, or whose type is none of login, send and
\* typing, causes exactly one error event, to its issuer, and leaves the
\* connection open and in the client set.
UnrecognisedGetsOneError ==
    (lastOp.op = "message" /\ Unrecognised(lastOp.arg)) =>
        /\ Len(out) = 1
        /\ out[1].type = "error"
        /\ out[1].to = lastOp.ws
        /\ lastOp.ws \in clients
        /\ readyState[lastOp.ws] = "OPEN"

\* C5, as the code has it: while the server's adapter holds no session handle
\* a send or typing command causes no vendor call; typing sends nothing, send
\* sends nothing when no adapter exists and otherwise exactly one error event
\* "Not logged in to Zalo" to its issuer.  With a handle (also one left by a
\* login that failed at the listener start) the vendor is called.
CommandWithoutHandle ==
    Handled({"{type:send}", "{type:typing}"}) =>
        IF zalo = NULL
        THEN calls = <<>> /\ out = <<>>
        ELSE IF adapters[CUR].api = "null"
        THEN /\ calls = <<>>
             /\ IF lastOp.arg = "{type:typing}"
                THEN out = <<>>
                ELSE /\ Len(out) = 1
                     /\ SameEvent(out[1], Event("error", "error", "Not logged in to Zalo"))
                     /\ out[1].to = lastOp.ws
        ELSE VendorCalls # {}

SendWhileLoginPending ==
    /\ Handled({"{type:send}"})
    /\ zalo # NULL
    /\ adapters[CUR].api = "null"
    /\ adapters[CUR].logins[lastOp.ws] > 0
    /\ Len(out) = 1

\* C5, as stated: while the client set is non-empty and no login has
\* succeeded, a send or typing command sends no event and calls nothing.
CommandBeforeLoginIsNoOp ==
    (Handled({"{type:send}", "{type:typing}"}) /\ clients # {} /\ ~loginSince) =>
        /\ out = <<>>
        /\ calls = <<>>

\* How many events the last handler run broadcast.
BroadcastsMade ==
    CASE lastOp.op = "loginDone" -> Len(LoginStatuses(lastOp.arg))
      [] lastOp.op = "vendorError" -> 1
      [] lastOp.op = "vendorMessage" -> IF Classify(lastOp.arg).emit THEN 1 ELSE 0
      [] lastOp.op \in {"close", "error", "stop"} -> IF Called("disconnect") # {} THEN 1 ELSE 0
      [] OTHER -> 0

\* The ws.send calls of the n-th broadcast of the last handler run.
BroadcastSends(n) ==
    {i \in DOMAIN out : out[i].n = n /\ out[i].type \in {"status", "message"}}

\* C6: each broadcast of a message or status event is sent exactly once to
\* every connection that is in the client set and open, and to no other
\* connection; all its receivers get the same event.
BroadcastReachesOpenClientsOnce ==
    /\ \A i \in DOMAIN out :
          out[i].type \in {"status", "message"} => out[i].n \in 1..BroadcastsMade
    /\ \A n \in 1..BroadcastsMade :
          /\ \A c \in Sock :
                Cardinality({i \in BroadcastSends(n) : out[i].to = c})
                  = (IF c \in OpenClients THEN 1 ELSE 0)
          /\ \A i, j \in BroadcastSends(n) : SameEvent(out[i], out[j])
          /\ \A i \in BroadcastSends(n) : out[i].rs = "OPEN"

MessagePassesRemovedAndClosing ==
    /\ lastOp.op = "vendorMessage"
    /\ Len(out) = 1
    /\ \E c \in Sock \ {out[1].to} : readyState[c] = "CLOSING"

\* C7: a login-result is sent only by the completion of a login command and
\* only to the connection that issued it; a status or message event is sent
\* to every open connection of the client set.
LoginResultOnlyToRequester ==
    /\ \A i \in DOMAIN out :
          out[i].type = "login" => lastOp.op = "loginDone" /\ out[i].to = lastOp.ws
    /\ \A i \in DOMAIN out :
          out[i].type \in {"status", "message"} =>
              \A c \in OpenClients :
                  \E j \in DOMAIN out :
                      out[j].to = c /\ out[j].n = out[i].n /\ SameEvent(out[j], out[i])

StatusToAllResultToOne ==
    /\ lastOp.op = "loginDone"
    /\ readyState[lastOp.ws] = "OPEN"
    /\ SentTo(lastOp.ws, "login") # {}
    /\ \E c \in OpenClients \ {lastOp.ws} :
          SentTo(c, "status") # {} /\ SentTo(c, "login") = {}

\* C8: the completion of a login command sends exactly one login-result, to
\* its requester, with success true exactly when the vendor login and the
\* listener start succeeded and otherwise success false with the error's
\* text; a failed login calls onStatus("disconnected"), a successful one
\* onStatus("connected") and not onStatus("disconnected"); a login command
\* calls the vendor login exactly once and its completion never does.
LoginAnsweredOnce ==
    /\ lastOp.op = "loginDone" =>
          LET results == {i \in DOMAIN out : out[i].type = "login"}
          IN /\ Cardinality(results) = 1
             /\ \A i \in results :
                   /\ out[i].to = lastOp.ws
                   /\ out[i].k = "success"
                   /\ out[i].v = (IF lastOp.arg = "ok" THEN "true" ELSE "false")
                   /\ (out[i].err = "ABSENT") <=> (lastOp.arg = "ok")
             /\ (Called("onStatus disconnected") # {}) <=> (lastOp.arg # "ok")
             /\ lastOp.arg = "ok" => Called("onStatus connected") # {}
             /\ Called("zalo.login") = {}
    /\ Handled({"{type:login}"}) =>
          /\ Cardinality(Called("zalo.login")) = 1
          /\ out = <<>>
    /\ Called("zalo.login") # {} => Handled({"{type:login}"})

LoginFailedAtListenerStart ==
    /\ lastOp.op = "loginDone"
    /\ lastOp.arg = "startThrows"
    /\ readyState[lastOp.ws] = "OPEN"
    /\ \E i \in SentTo(lastOp.ws, "login") : out[i].v = "false"

\* The events of this type that connection c received from the last handler run.
Received(c, type) == {i \in SentTo(c, type) : out[i].rs = "OPEN"}

\* The scenario of clients A and B; `torn` are the stages in which a send or
\* typing command must cause no vendor call.
Scenario(torn) ==
    /\ scn.stage = "Aok" =>
          \E i \in Received(scn.a, "login") : out[i].v = "true"
    /\ scn.stage = "AB" =>
          /\ calls = <<>>
          /\ zalo = CUR
          /\ adapters[CUR].api = "started"
    /\ scn.stage = "msg" =>
          /\ Cardinality(Received(scn.a, "message")) = 1
          /\ Cardinality(Received(scn.b, "message")) = 1
          /\ \A i \in Received(scn.a, "message"), j \in Received(scn.b, "message") :
                SameEvent(out[i], out[j])
    /\ scn.stage = "Aleft" =>
          /\ calls = <<>>
          /\ zalo = CUR
          /\ adapters[CUR].api = "started"
    /\ scn.stage = "Bleft" =>
          /\ Called("disconnect") # {}
          /\ Called("listener.stop") # {}
          /\ adapters[CUR].api = "null"
          /\ Listeners(adapters, stray) = 0
    /\ scn.stage \in torn =>
          /\ lastOp.op = "closeTail" => zalo = NULL /\ Listeners(adapters, stray) = 0
          /\ Handled({"{type:send}", "{type:typing}"}) => VendorCalls = {}

ContentClassified ==
    lastOp.op = "vendorMessage" =>
        LET content == lastOp.arg
            forwarded(k, v) ==
                \A c \in OpenClients :
                    \E i \in SentTo(c, "message") : out[i].k = k /\ out[i].v = v
        IN IF content.t = "string" THEN forwarded("string", content.text)
           ELSE IF content.t = "object" /\ content.href \notin {"NULL", "UNDEFINED"}
           THEN forwarded("attachment", content.href)
           ELSE out = <<>>

\* The last handler run sent exactly one error event, with this text, to the
\* connection whose command it handled.
OneErrorToIssuer(what) ==
    /\ Len(out) = 1
    /\ SameEvent(out[1], Event("error", "error", what))
    /\ out[1].to = lastOp.ws

\* C11: a send command routed to the adapter sends exactly one error event,
\* to its issuer and to no one else, with the not-logged-in error when the
\* adapter holds no session handle and with the vendor's error when the vendor
\* send fails, and sends nothing when the vendor send succeeds; in every case
\* the client set, the connections, the adapter reference and the adapters
\* with their handles and listeners are as they were.
SendFailureToIssuerOnly ==
    [][(lastOp'.op = "message" /\ lastOp'.arg = "{type:send}" /\ zalo # NULL) =>
          /\ IF adapters[zalo].api = "null"
             THEN /\ OneErrorToIssuer("Not logged in to Zalo")'
                  /\ calls' = <<>>
             ELSE IF Called(SendFailed)' # {}
             THEN /\ OneErrorToIssuer("vendor")'
                  /\ calls'[1] = Call("api.sendMessage", zalo)
             ELSE /\ out' = <<>>
                  /\ calls' = <<Call("api.sendMessage", zalo)>>
          /\ clients' = clients
          /\ readyState' = readyState
          /\ zalo' = zalo
          /\ adapters' = adapters
          /\ stray' = stray
          /\ micro' = "none"
          /\ proc' = "serving"
      ]_vars

VendorSendFailedWithOthersOpen ==
    /\ Handled({"{type:send}"})
    /\ Called(SendFailed) # {}
    /\ OneErrorToIssuer("vendor")
    /\ OpenClients \ {lastOp.ws} # {}

\* C12: a typing command sends no event to any client, whether no adapter
\* exists, the adapter holds no session handle (no vendor call is made) or the
\* vendor typing call is made and fails; the client set, the connections, the
\* adapter reference and the adapters with their handles and listeners are as
\* they were.
TypingNeverSurfaces ==
    [][(lastOp'.op = "message" /\ lastOp'.arg = "{type:typing}") =>
          /\ out' = <<>>
          /\ IF zalo = NULL \/ adapters[CUR].api = "null"
             THEN calls' = <<>>
             ELSE /\ calls'[1] = Call("api.sendTypingEvent", zalo)
                  /\ \A i \in DOMAIN calls' :
                        i > 1 => calls'[i] = Call(TypingFailed, zalo)
          /\ clients' = clients
          /\ readyState' = readyState
          /\ zalo' = zalo
          /\ adapters' = adapters
          /\ stray' = stray
          /\ micro' = "none"
          /\ proc' = "serving"
      ]_vars

VendorTypingFailed ==
    /\ Handled({"{type:typing}"})
    /\ Called(TypingFailed) # {}
    /\ out = <<>>
    /\ adapters[CUR].api = "started"

\* C13: a call of disconnect(), whatever the adapter's state (no login yet,
\* logins pending, handle held with the listener started or not, already
\* disconnected), stops the listener of the handle exactly when a handle is
\* held, leaves the adapter without a handle, and calls
\* onStatus("disconnected") exactly once; a call on an adapter that holds no
\* handle, as a second call finds it, leaves the adapter as it was, and a
\* further call would again leave it so.
DisconnectIdempotent ==
    [][lastOp'.op = "disconnect" =>
          /\ adapters'[CUR].api = "null"
          /\ adapters'[CUR].logins = adapters[CUR].logins
          /\ (Called("listener.stop")' # {}) <=> (adapters[CUR].api # "null")
          /\ Listeners(adapters', stray')
               = Listeners(adapters, stray) - (IF adapters[CUR].api = "started" THEN 1 ELSE 0)
          /\ Cardinality(Called("onStatus disconnected")') = 1
          /\ Cardinality(Called("disconnect")') = 1
          /\ \A c \in Sock :
                Cardinality(SentTo(c, "status")')
                  = (IF c \in OpenClients THEN 1 ELSE 0)
          /\ adapters[CUR].api = "null" => adapters' = adapters
          /\ lastOp'.arg = "again" => adapters' = adapters /\ Called("listener.stop")' = {}
          /\ DisconnectAdapter(CUR, adapters') = adapters'
      ]_vars

DisconnectedTwiceWhilePending ==
    /\ lastOp.op = "disconnect"
    /\ lastOp.arg = "again"
    /\ \E s \in Sock : adapters[CUR].logins[s] > 0
    /\ Cardinality(Called("onStatus disconnected")) = 1
    /\ out # <<>>

\* C14: stop() closes every client connection and empties the client set,
\* then closes the listener, then disconnects the adapter if the server holds
\* one (whose status event therefore reaches no client); when stop() has
\* completed, and from then on, the client set is empty, the listener
\* reference is null and the adapter reference is null.
StopInOrder ==
    /\ lastOp.op = "stop" =>
          /\ Len(calls) >= 2
          /\ calls[1] = Call("close clients", NULL)
          /\ calls[2] = Call("wss.close", NULL)
          /\ \A i \in DOMAIN calls : i > 2 => calls[i].on = zalo /\ zalo # NULL
          /\ (Called("disconnect") # {}) <=> (zalo # NULL)
          /\ zalo # NULL => adapters[CUR].api = "null"
          /\ clients = {}
          /\ wss = "null"
          /\ \A c \in Sock : readyState[c] # "OPEN"
          /\ out = <<>>
          /\ micro = (IF zalo = NULL THEN "exit" ELSE "stopTail")
    /\ (micro = "exit" \/ proc = "exited") =>
          /\ lastOp.op \in {"stop", "stopTail", "exit"}
          /\ clients = {}
          /\ wss = "null"
          /\ zalo = NULL

StoppedWithSessionAndClients ==
    /\ lastOp.op = "stopTail"
    /\ micro = "exit"
    /\ zalo = NULL
    /\ \E c \in Sock : readyState[c] = "CLOSING"

\* A ts that is a number, or a string that is a decimal numeral.
NumericTs(ts) ==
    \/ ts.t = "number"
    \/ ts.t = "string" /\ ts.str # <<>> /\ \A i \in DOMAIN ts.str : ts.str[i] \in Digits

\* The number a numeric ts denotes.
NumericValue(ts) == IF ts.t = "number" THEN ts.n ELSE Decimal(ts.str)

\* C15: the timestamp of every message event sent is the platform's ts when
\* that is numeric, and the receipt time when ts is absent or not numeric.
TimestampFromTsOrReceipt ==
    lastOp.op = "vendorMessage" =>
        \A i \in DOMAIN out :
            out[i].timestamp = (IF NumericTs(lastOp.arg.ts)
                                THEN NumericValue(lastOp.arg.ts)
                                ELSE lastOp.arg.now)

\* The vendor logins that the adapters other than the server's await.
PendingElsewhere(ad) ==
    {x \in (DOMAIN ad \ {CUR}) \X Sock : ad[x[1]].logins[x[2]] > 0}

\* C16: a login command constructs an adapter exactly when the server's
\* adapter reference is null, and this is not prevented by a vendor login
\* that an earlier command still awaits: the new adapter then awaits its own
\* vendor login beside the earlier one.  A command that finds the reference
\* set starts its vendor login on the adapter the server has.
LoginConstructsIffNoReference ==
    [][(lastOp'.op = "message" /\ lastOp'.arg = "{type:login}") =>
          /\ (Called("new ZaloClient")' # {}) <=> (zalo = NULL)
          /\ Cardinality(Called("zalo.login")') = 1
          /\ zalo' = CUR
          /\ adapters'[CUR].logins
               = [adapters[CUR].logins EXCEPT ![lastOp'.ws] = @ + 1]
          /\ zalo = NULL => adapters'[CUR].logins = [NoLogins EXCEPT ![lastOp'.ws] = 1]
          /\ zalo # NULL => adapters'[CUR].api = adapters[CUR].api
          /\ PendingElsewhere(adapters') = PendingElsewhere(adapters)
          /\ Tail(adapters') = Tail(adapters)
      ]_vars

SecondLoginConstructsSecondAdapter ==
    /\ Handled({"{type:login}"})
    /\ Called("new ZaloClient") # {}
    /\ adapters[CUR].logins = [NoLogins EXCEPT ![lastOp.ws] = 1]
    /\ adapters[CUR].api = "null"
    /\ PendingElsewhere(adapters) # {}

\* The onStatus("connected") and onStatus("disconnected") calls of the last
\* handler run.
StatusCalls == Called("onStatus connected") \cup Called("onStatus disconnected")

\* C17: when the last status the server's adapter reported is "disconnected",
\* that adapter holds no session handle (and so no running listener).
DisconnectedStatusMeansNoHandle ==
    \A i \in Called("onStatus disconnected") :
        (zalo = CUR /\ calls[i].on = CUR /\ \A j \in StatusCalls : j <= i) =>
            adapters[CUR].api = "null"

\* C18: a message event reaches a client only while the server holds an
\* adapter reference and that adapter holds a session whose listener was
\* started by its last login.
MessageOnlyWithSession ==
    (lastOp.op = "vendorMessage" /\ \E c \in Sock : Received(c, "message") # {}) =>
        /\ zalo = CUR
        /\ adapters[CUR].api = "started"

\* C19: the completion of a login command sends every status event of the
\* attempt before the login-result; a requester that is open receives, as the
\* last status before its login-result, "connected" when the result is
\* success true and "disconnected" when it is success false.
StatusBeforeLoginResult ==
    lastOp.op = "loginDone" =>
        \A i \in SentTo(lastOp.ws, "login") :
            /\ \A j \in DOMAIN out : out[j].type = "status" => j < i
            /\ readyState[lastOp.ws] = "OPEN" =>
                  \E j \in Received(lastOp.ws, "status") :
                      /\ j < i
                      /\ \A k \in Received(lastOp.ws, "status") : k <= j
                      /\ out[j].v = (IF out[i].v = "true" THEN "connected" ELSE "disconnected")

RejectedLoginStatusThenResult ==
    /\ lastOp.op = "loginDone"
    /\ lastOp.arg = "rejected"
    /\ readyState[lastOp.ws] = "OPEN"
    /\ Cardinality(OpenClients) > 1
    /\ out[Len(out)].type = "login"
    /\ out[Len(out)].v = "false"
    /\ Received(lastOp.ws, "status") # {}

\* C20: the server calls disconnect() only on the adapter it refers to, once
\* in a handler run, and drops the reference before any other handler runs:
\* in the same run (error handler) or in the continuation that the run owes
\* (close handler, stop), which calls nothing.  A close or error handler that
\* finds the reference null calls nothing and leaves it null.  So no adapter
\* is disconnected twice.
DisconnectAtMostOnce ==
    [][/\ \A i \in Called("disconnect")' :
             /\ zalo # NULL
             /\ calls'[i].on = zalo
             /\ Cardinality(Called("disconnect")') = 1
             /\ lastOp'.op \in {"close", "error", "stop"}
             /\ IF lastOp'.op = "error"
                THEN zalo' = NULL /\ micro' = "none"
                ELSE micro' \in {"closeTail", "stopTail"}
       /\ micro \in {"closeTail", "stopTail"} =>
             /\ lastOp'.op \in {"closeTail", "stopTail"}
             /\ zalo' = NULL
             /\ calls' = <<>>
       /\ (lastOp'.op \in {"close", "error", "stop"} /\ zalo = NULL) =>
             /\ Called("disconnect")' = {}
             /\ zalo' = NULL
             /\ adapters' = adapters
      ]_vars

CloseAfterErrorFindsNoAdapter ==
    /\ lastOp.op = "close"
    /\ clients = {}
    /\ zalo = NULL
    /\ calls = <<>>
    /\ \E a \in DOMAIN adapters \ {CUR} : adapters[a].logins[lastOp.ws] > 0

====
